---- MODULE Spec2Model ----
(***************************************************************************)
(* Model of hdx.scraper.unep.pipeline.Pipeline: layer discovery            *)
(* (get_layersinfo), the per-country date-range query (get_date_range) and *)
(* the dataset assembly (generate_dataset) with its staging directory.     *)
(*                                                                         *)
(* Text that the code transforms character by character (country codes,    *)
(* geometry types, the dataset name) is a sequence of one-character        *)
(* strings; text the code only concatenates is a TLA+ string.  A Python    *)
(* optional value is the empty tuple (None) or a one-element tuple.        *)
(***************************************************************************)
EXTENDS Integers, Sequences, FiniteSets, TLC

\* Bounds of the model.
MaxLayers == 2      \* entries in the service catalog
MaxCalls == 2       \* generate_dataset calls on one Pipeline

None == <<>>
Some(v) == <<v>>

(***************************************************************************)
(* Characters                                                              *)
(***************************************************************************)
UpperCase ==
  <<"A","B","C","D","E","F","G","H","I","J","K","L","M",
    "N","O","P","Q","R","S","T","U","V","W","X","Y","Z">>
LowerCase ==
  <<"a","b","c","d","e","f","g","h","i","j","k","l","m",
    "n","o","p","q","r","s","t","u","v","w","x","y","z">>

IsUpper(ch) == \E i \in 1..Len(UpperCase) : UpperCase[i] = ch

\* Code point order of the characters the model uses.
Ord(ch) ==
  IF IsUpper(ch)
    THEN 64 + (CHOOSE i \in 1..Len(UpperCase) : UpperCase[i] = ch)
  ELSE IF \E i \in 1..Len(LowerCase) : LowerCase[i] = ch
    THEN 96 + (CHOOSE i \in 1..Len(LowerCase) : LowerCase[i] = ch)
  ELSE 95

\* str.lower(), one character
lower_char(ch) ==
  IF IsUpper(ch)
    THEN LowerCase[CHOOSE i \in 1..Len(UpperCase) : UpperCase[i] = ch]
    ELSE ch

\* str.lower()
lower(s) == [i \in 1..Len(s) |-> lower_char(s[i])]

\* Python's "sub in s" on strings
Contains(s, sub) ==
  \E i \in 0..(Len(s) - Len(sub)) : SubSeq(s, i + 1, i + Len(sub)) = sub

\* Python's "a < b" on strings
RECURSIVE StrLess(_, _)
StrLess(a, b) ==
  IF b = <<>> THEN FALSE
  ELSE IF a = <<>> THEN TRUE
  ELSE IF Ord(Head(a)) # Ord(Head(b)) THEN Ord(Head(a)) < Ord(Head(b))
  ELSE StrLess(Tail(a), Tail(b))

\* sorted(set of strings)
RECURSIVE SortedStrings(_)
SortedStrings(S) ==
  IF S = {} THEN <<>>
  ELSE LET m == CHOOSE x \in S : \A y \in S \ {x} : StrLess(x, y)
       IN <<m>> \o SortedStrings(S \ {m})

(***************************************************************************)
(* The remote service and the configuration                                *)
(***************************************************************************)
BOL == <<"B","O","L">>
KEN == <<"K","E","N">>
XXX == <<"X","X","X">>

\* Codes the country lookup knows; add_country_location raises for the rest.
KnownCountries == {BOL, KEN}
CountryCodes == {BOL, KEN, XXX}

esriGeometryPoint ==
  <<"e","s","r","i","G","e","o","m","e","t","r","y","P","o","i","n","t">>
esriGeometryMultipoint ==
  <<"e","s","r","i","G","e","o","m","e","t","r","y",
    "M","u","l","t","i","p","o","i","n","t">>
esriGeometryPolygon ==
  <<"e","s","r","i","G","e","o","m","e","t","r","y",
    "P","o","l","y","g","o","n">>
GeometryTypes == {esriGeometryPoint, esriGeometryMultipoint, esriGeometryPolygon}

\* One entry of the "layers" list of the service's root document.
LayerEntries(id) ==
  {[id |-> id, type |-> "Feature Layer", geometryType |-> g] : g \in GeometryTypes}
    \cup {[id |-> id, type |-> "Table", geometryType |-> <<>>]}

\* The "layers" lists: up to MaxLayers entries, their ids 0..n-1 listed in
\* ascending or in descending order.
Catalogs ==
  UNION {{c \in [1..n -> UNION {LayerEntries(i) : i \in 0..(n - 1)}] :
            \/ \A i \in 1..n : c[i].id = i - 1
            \/ \A i \in 1..n : c[i].id = n - i} : n \in 0..MaxLayers}

\* The distinct ISO3 values the service holds for a layer.
ServiceCountries(layer_id) == IF layer_id = 0 THEN {KEN, BOL} ELSE {BOL}

\* The "attributes" object of the statistics response: no matching row
\* (both statistics null), a row under lower-cased field names, or a row
\* under the field names as the query spelled them.
StatsRows == {<<1939, 2010>>, <<1990, 2013>>}
StatsResponses ==
  {[start_year |-> None, end_year |-> None]}
    \cup {[start_year |-> Some(r[1]), end_year |-> Some(r[2])] : r \in StatsRows}
    \cup {[start_year |-> Some(r[1]), end_Year |-> Some(r[2])] : r \in StatsRows}

base_filename == "protected_conserved_areas_WDPCA"
Url == "https://data-gis.unep-wcmc.org/server/rest/services/ProtectedPlanet/WDPCA/FeatureServer"

\* configuration["tags"]
Tags == {"environment", "geodata"}

(***************************************************************************)
(* State                                                                   *)
(***************************************************************************)
VARIABLES
  pc,                \* where the program is
  layers,            \* response["layers"] of the service's root document
  li,                \* get_layersinfo: position of the loop over layers
  layer_id_to_type,  \* the dict, as its items in insertion order
  countries,         \* get_layersinfo: the set of ISO3 codes collected
  country_list,      \* get_layersinfo: the list returned with the dict
  queried,           \* layer ids get_countries was called for
  tempdir,           \* the staging directory: file name -> rows stored
  calls,             \* generate_dataset calls begun on this Pipeline
  countryiso,        \* generate_dataset: its argument
  idx,               \* generate_dataset: position of the loop over items
  start_years,       \* generate_dataset: local list
  end_years,         \* generate_dataset: local list
  resources,         \* generate_dataset: local list
  gdf,               \* generate_dataset: the GeoDataFrame last read
  dataset,           \* generate_dataset: the Dataset under construction
  outcome,           \* how the last call ended
  events             \* the queries and file operations of the current call

vars ==
  <<pc, layers, li, layer_id_to_type, countries, country_list, queried,
    tempdir, calls, countryiso, idx, start_years, end_years, resources,
    gdf, dataset, outcome, events>>

layersinfo_vars == <<layers, li, layer_id_to_type, countries, country_list, queried>>

(***************************************************************************)
(* get_layersinfo                                                          *)
(***************************************************************************)
\* layer["type"] != "Feature Layer": continue
IsFeatureLayer(layer) == layer.type = "Feature Layer"

\* the classification of a geometry type
layer_type_ignoring_case(geometry_type) ==
  IF Contains(lower(geometry_type), <<"p","o","i","n","t">>)
    THEN "points" ELSE "polygons"
layer_type_of(geometry_type) ==
  IF Contains(geometry_type, <<"p","o","i","n","t">>)
    THEN "points" ELSE "polygons"

\* d[k] = v on a dict kept as its items in insertion order
DictSet(d, k, v) ==
  IF \E i \in 1..Len(d) : d[i].id = k
    THEN [i \in 1..Len(d) |-> IF d[i].id = k THEN [id |-> k, type |-> v] ELSE d[i]]
    ELSE Append(d, [id |-> k, type |-> v])

\* get_countries: the distinct ISO3 values of one layer
get_countries(layer_id) == ServiceCountries(layer_id)

\* The root document is read; no layers: return {}, [].
GetLayersInfoBegin ==
  /\ pc = "get_layersinfo"
  /\ pc' = IF layers = <<>> THEN "idle" ELSE "layers_loop"
  /\ li' = 1
  /\ layer_id_to_type' = <<>>
  /\ countries' = {}
  /\ country_list' = <<>>
  /\ UNCHANGED <<layers, queried, tempdir, calls, countryiso, idx, start_years,
                 end_years, resources, gdf, dataset, outcome, events>>

\* One iteration of the loop over the layers.
GetLayersInfoLayer ==
  /\ pc = "layers_loop"
  /\ li <= Len(layers)
  /\ LET layer == layers[li] IN
       IF ~IsFeatureLayer(layer)
         THEN UNCHANGED <<layer_id_to_type, countries, queried>>
         ELSE /\ layer_id_to_type' =
                   DictSet(layer_id_to_type, layer.id, layer_type_of(layer.geometryType))
              /\ countries' = countries \cup get_countries(layer.id)
              /\ queried' = queried \cup {layer.id}
  /\ li' = li + 1
  /\ UNCHANGED <<pc, layers, country_list, tempdir, calls, countryiso, idx,
                 start_years, end_years, resources, gdf, dataset, outcome, events>>

\* The loop is over: return the dict and the sorted country records.
GetLayersInfoReturn ==
  /\ pc = "layers_loop"
  /\ li > Len(layers)
  /\ country_list' = [i \in 1..Cardinality(countries) |->
                        [iso3 |-> SortedStrings(countries)[i]]]
  /\ pc' = "idle"
  /\ UNCHANGED <<layers, li, layer_id_to_type, countries, queried, tempdir, calls,
                 countryiso, idx, start_years, end_years, resources, gdf, dataset,
                 outcome, events>>

(***************************************************************************)
(* get_date_range                                                          *)
(***************************************************************************)
\* dict.get(key): the value, or None when the key is missing
Get(attrs, key) == IF key \in DOMAIN attrs THEN attrs[key] ELSE None

\* the (start_year, end_year) read off the statistics response
get_date_range(attrs) == <<Get(attrs, "start_year"), Get(attrs, "end_year")>>

(***************************************************************************)
(* The staging directory                                                   *)
(***************************************************************************)
\* Path(path).unlink(missing_ok=True)
unlink_skipped(dir, path) == dir
unlink(dir, path) == [f \in (DOMAIN dir) \ {path} |-> dir[f]]

\* a file written whole: whatever it held is replaced
write_file(dir, path, rows) ==
  [f \in (DOMAIN dir) \cup {path} |-> IF f = path THEN rows ELSE dir[f]]

\* gdf.to_file(path, layer=layer, driver="GPKG"): the layer of that name is
\* created or replaced, the other layers of the file stay
write_gpkg_layer(dir, path, layer, row) ==
  write_file(dir, path,
             (IF path \in DOMAIN dir THEN {r \in dir[path] : r.layer # layer} ELSE {})
               \cup {row})

gpkg_filename == base_filename \o ".gpkg"
geojson_filename(layer_type) == base_filename \o "_" \o layer_type \o ".geojson"
csv_filename(layer_type) == base_filename \o "_" \o layer_type \o ".csv"

\* what a file holds of a GeoDataFrame: the layer name it is stored under,
\* the frame, whether the geometry column is kept, and the call that wrote it
Row(layer, frame, geometry) ==
  [layer |-> layer, gdf |-> frame, geometry |-> geometry, call |-> calls]

(***************************************************************************)
(* Resources                                                               *)
(***************************************************************************)
layer_url_of(layer_id) == [url |-> Url, id |-> layer_id]

Resource(name, description, format, file, url) ==
  [name |-> name, description |-> description, format |-> format,
   file_to_upload |-> file, url |-> url, dataset_preview_enabled |-> FALSE]

generate_geojson(layer_type) ==
  Resource(geojson_filename(layer_type),
           "GeoJSON format of the summary of " \o layer_type,
           "geojson", Some(geojson_filename(layer_type)), None)

generate_csv(layer_type) ==
  Resource(csv_filename(layer_type),
           "CSV format of the summary of " \o layer_type,
           "csv", Some(csv_filename(layer_type)), None)

generate_gpkg ==
  Resource(gpkg_filename, "GPKG of point and polygon data",
           "gpkg", Some(gpkg_filename), None)

generate_geoservice(layer_id, layer_type) ==
  Resource(layer_type \o " GeoService",
           "ArcGIS Map Service of the summary of " \o layer_type,
           "GeoService", None, Some(layer_url_of(layer_id)))

(***************************************************************************)
(* generate_dataset                                                        *)
(***************************************************************************)
\* dataset.add_country_location(countryiso) does not raise HDXError
CountryResolvableAlways(c) == TRUE
CountryResolvable(c) == c \in KnownCountries

\* the dataset name
dataset_name_of(c) ==
  <<"u","n","e","p","_","w","d","p","c","a","_">> \o lower(c)

\* Dataset({"name": ..., "title": ...}); the title is kept as the code the
\* country name is looked up for
NewDataset(c) ==
  [name |-> dataset_name_of(c), title_country |-> c, groups |-> None,
   dataset_preview |-> None, resources |-> <<>>, time_period |-> None,
   tags |-> {}]

\* "if not start_year: continue" is not taken
QualifiesAlways(start_year) == TRUE
QualifiesInverted(start_year) == ~(start_year # None /\ start_year[1] # 0)
Qualifies(start_year) == start_year # None /\ start_year[1] # 0

\* the resource the reversed scan stops at: the last one of format geojson
\* (0: none)
FirstGeojsonIndex(res) ==
  IF \E i \in 1..Len(res) : res[i].format = "geojson"
    THEN CHOOSE i \in 1..Len(res) :
           /\ res[i].format = "geojson"
           /\ \A j \in 1..(i - 1) : res[j].format # "geojson"
    ELSE 0
PreviewIndex(res) ==
  IF \E i \in 1..Len(res) : res[i].format = "geojson"
    THEN CHOOSE i \in 1..Len(res) :
           /\ res[i].format = "geojson"
           /\ \A j \in (i + 1)..Len(res) : res[j].format # "geojson"
    ELSE 0

\* resource.enable_dataset_preview() on the resource the scan stops at
WithPreview(res) ==
  [i \in 1..Len(res) |->
     IF i = PreviewIndex(res)
       THEN [res[i] EXCEPT !.dataset_preview_enabled = TRUE]
       ELSE res[i]]

\* sorted(years) raises TypeError: None is compared with another element
SortRaises(years) ==
  /\ Len(years) >= 2
  /\ \E i \in 1..Len(years) : years[i] = None

\* sorted(years), where it does not raise
Sorted(years) ==
  IF Len(years) <= 1 THEN years
  ELSE SortSeq(years, LAMBDA a, b : a[1] < b[1])

Event(op, layer_id, file, range) ==
  [op |-> op, layer_id |-> layer_id, file |-> file, range |-> range]

\* Entry of generate_dataset up to the loop: the Dataset is made, the country
\* is resolved (failure: return None), the geopackage path is unlinked.
GenerateDatasetBegin(c) ==
  /\ pc = "idle"
  /\ calls < MaxCalls
  /\ calls' = calls + 1
  /\ countryiso' = c
  /\ start_years' = <<>>
  /\ end_years' = <<>>
  /\ resources' = <<>>
  /\ gdf' = None
  /\ idx' = 1
  /\ IF ~CountryResolvable(c)
       THEN /\ dataset' = NewDataset(c)
            /\ outcome' = "None"
            /\ pc' = "idle"
            /\ events' = <<>>
            /\ UNCHANGED tempdir
       ELSE /\ dataset' = [NewDataset(c) EXCEPT !.groups = Some(lower(c))]
            /\ outcome' = "running"
            /\ pc' = "loop"
            /\ tempdir' = unlink(tempdir, gpkg_filename)
            /\ events' = <<Event("unlink", -1, gpkg_filename, None)>>
  /\ UNCHANGED layersinfo_vars

\* Loop head: get_date_range for the next item; no start year: continue.
QueryDateRange ==
  /\ pc = "loop"
  /\ idx <= Len(layer_id_to_type)
  /\ \E attrs \in StatsResponses :
       LET range == get_date_range(attrs) IN
         /\ events' = Append(events,
                             Event("date_range", layer_id_to_type[idx].id, "", range))
         /\ IF ~Qualifies(range[1])
              THEN /\ idx' = idx + 1
                   /\ UNCHANGED <<pc, start_years, end_years>>
              ELSE /\ start_years' = Append(start_years, range[1])
                   /\ end_years' = Append(end_years, range[2])
                   /\ pc' = "fetch"
                   /\ UNCHANGED idx
  /\ UNCHANGED <<tempdir, calls, countryiso, resources, gdf, dataset, outcome>>
  /\ UNCHANGED layersinfo_vars

\* read_file("ESRIJSON:" + query_url): the features of the layer for the country
FetchFeatures ==
  /\ pc = "fetch"
  /\ gdf' = Some([layer_id |-> layer_id_to_type[idx].id, iso3 |-> countryiso])
  /\ events' = Append(events, Event("fetch", layer_id_to_type[idx].id, "", None))
  /\ pc' = "write"
  /\ UNCHANGED <<tempdir, calls, countryiso, idx, start_years, end_years,
                 resources, dataset, outcome>>
  /\ UNCHANGED layersinfo_vars

\* The rest of the loop body: the geopackage layer, the geojson and csv files
\* and the three resources of the layer.
WriteLayer ==
  /\ pc = "write"
  /\ LET layer_id == layer_id_to_type[idx].id
         layer_type == layer_id_to_type[idx].type
         d1 == write_gpkg_layer(tempdir, gpkg_filename, layer_type,
                                Row(layer_type, gdf[1], TRUE))
         d2 == write_file(d1, geojson_filename(layer_type),
                          {Row(base_filename \o "_" \o layer_type, gdf[1], TRUE)})
         d3 == write_file(d2, csv_filename(layer_type),
                          {Row("", gdf[1], FALSE)})
     IN
       /\ tempdir' = d3
       /\ resources' = resources \o
            <<generate_geojson(layer_type), generate_csv(layer_type),
              generate_geoservice(layer_id, layer_type)>>
       /\ events' = events \o
            <<Event("write", layer_id, gpkg_filename, None),
              Event("write", layer_id, geojson_filename(layer_type), None),
              Event("write", layer_id, csv_filename(layer_type), None)>>
  /\ idx' = idx + 1
  /\ pc' = "loop"
  /\ UNCHANGED <<calls, countryiso, start_years, end_years, gdf, dataset, outcome>>
  /\ UNCHANGED layersinfo_vars

\* After the loop: no data (return None), or the geopackage resource is put
\* first, the preview is set, the resources are added, the years are sorted
\* (which may raise) and the Dataset is returned.
GenerateDatasetEnd ==
  /\ pc = "loop"
  /\ idx > Len(layer_id_to_type)
  /\ IF Len(start_years) = 0
       THEN /\ outcome' = "None"
            /\ pc' = "idle"
            /\ UNCHANGED <<resources, dataset, start_years, end_years>>
       ELSE LET res == WithPreview(<<generate_gpkg>> \o resources)
                d1 == [dataset EXCEPT
                         !.dataset_preview =
                            IF PreviewIndex(res) # 0
                              THEN Some("resource_id") ELSE Some("no_preview"),
                         !.resources = res]
            IN
              /\ resources' = res
              /\ IF SortRaises(start_years) \/ SortRaises(end_years)
                   THEN /\ outcome' = "TypeError"
                        /\ pc' = "raised"
                        /\ dataset' = d1
                        /\ start_years' = IF SortRaises(start_years)
                                            THEN start_years ELSE Sorted(start_years)
                        /\ UNCHANGED end_years
                   ELSE /\ outcome' = "Dataset"
                        /\ pc' = "idle"
                        /\ start_years' = Sorted(start_years)
                        /\ end_years' = Sorted(end_years)
                        /\ dataset' =
                             [d1 EXCEPT
                                !.time_period =
                                   Some([start |-> Sorted(start_years)[1],
                                         end |-> Sorted(end_years)[Len(end_years)]]),
                                !.tags = Tags]
  /\ UNCHANGED <<tempdir, calls, countryiso, idx, gdf, events>>
  /\ UNCHANGED layersinfo_vars

(***************************************************************************)
(* Specification                                                           *)
(***************************************************************************)
Init ==
  /\ pc = "get_layersinfo"
  /\ layers \in Catalogs
  /\ li = 1
  /\ layer_id_to_type = <<>>
  /\ countries = {}
  /\ country_list = <<>>
  /\ queried = {}
  /\ tempdir = <<>>
  /\ calls = 0
  /\ countryiso = <<>>
  /\ idx = 1
  /\ start_years = <<>>
  /\ end_years = <<>>
  /\ resources = <<>>
  /\ gdf = None
  /\ dataset = NewDataset(<<>>)
  /\ outcome = "none yet"
  /\ events = <<>>

Next ==
  \/ GetLayersInfoBegin
  \/ GetLayersInfoLayer
  \/ GetLayersInfoReturn
  \/ \E c \in CountryCodes : GenerateDatasetBegin(c)
  \/ QueryDateRange
  \/ FetchFeatures
  \/ WriteLayer
  \/ GenerateDatasetEnd

Spec == Init /\ [][Next]_vars

(***************************************************************************)
(* What the properties below speak about                                   *)
(***************************************************************************)
\* The date-range results of the current call, in query order.
DateRanges == SelectSeq(events, LAMBDA e : e.op = "date_range")

\* Those of the qualifying layers: a start year was returned.
Qualifying == SelectSeq(DateRanges, LAMBDA e : e.range[1] # None)

\* The classification the LayerTypeMap gives a layer id.
TypeOfLayer(layer_id) ==
  layer_id_to_type[CHOOSE i \in 1..Len(layer_id_to_type) :
                     layer_id_to_type[i].id = layer_id].type

\* A generate_dataset call has ended, by a return or by an exception.
CallOver == calls > 0 /\ pc \in {"idle", "raised"}

\* The entries of the catalog that are feature layers, in catalog order.
FeatureEntries == SelectSeq(layers, LAMBDA l : l.type = "Feature Layer")

\* The resource list the spec describes for the qualifying layers.
LayoutHolds(res) ==
  /\ Len(res) = 1 + 3 * Len(Qualifying)
  /\ res[1].format = "gpkg"
  /\ res[1].name = gpkg_filename
  /\ \A k \in 1..Len(Qualifying) :
       LET id == Qualifying[k].layer_id
           t == TypeOfLayer(id)
       IN /\ res[3 * k - 1].format = "geojson"
          /\ res[3 * k - 1].name = geojson_filename(t)
          /\ res[3 * k].format = "csv"
          /\ res[3 * k].name = csv_filename(t)
          /\ res[3 * k + 1].format = "GeoService"
          /\ res[3 * k + 1].url = Some(layer_url_of(id))

(***************************************************************************)
(* Properties                                                              *)
(***************************************************************************)
\* C1: for a resolvable country with at least one qualifying layer,
\* generate_dataset returns a Dataset whose resources are the geopackage
\* resource followed, per qualifying layer in map order, by its geojson, csv
\* and live-service resources: 1 + 3*q entries.
C1_ResourceLayout ==
  (CallOver /\ countryiso \in KnownCountries /\ Len(Qualifying) >= 1)
    => (outcome = "Dataset" /\ LayoutHolds(dataset.resources))

\* The same layout, of the calls that return a Dataset (not the statement of
\* C1: it leaves out the calls that end in an exception).
ReturnedLayout == outcome = "Dataset" => LayoutHolds(dataset.resources)

\* C2: the time period of a returned Dataset runs from the least start year
\* to the greatest end year of the qualifying layers.
C2_TimePeriod ==
  outcome = "Dataset" =>
    LET starts == {Qualifying[k].range[1][1] : k \in 1..Len(Qualifying)}
        ends == {Qualifying[k].range[2][1] :
                   k \in {j \in 1..Len(Qualifying) : Qualifying[j].range[2] # None}}
    IN /\ dataset.time_period # None
       /\ \E y \in starts :
            /\ \A z \in starts : y <= z
            /\ dataset.time_period[1].start = Some(y)
       /\ \E y \in ends :
            /\ \A z \in ends : z <= y
            /\ dataset.time_period[1].end = Some(y)

\* C2, where every qualifying layer has an end year (not the statement of C2).
TimePeriodWithEndYears ==
  (outcome = "Dataset"
     /\ \A k \in 1..Len(Qualifying) : Qualifying[k].range[2] # None)
    => C2_TimePeriod

\* C3: in a returned Dataset exactly one resource has the preview enabled; it
\* is the geojson resource of the last qualifying layer in map order.
C3_Preview ==
  outcome = "Dataset" =>
    LET res == dataset.resources
        on == {i \in 1..Len(res) : res[i].dataset_preview_enabled}
        last == Qualifying[Len(Qualifying)].layer_id
    IN /\ Cardinality(on) = 1
       /\ \A i \in on :
            /\ res[i].format = "geojson"
            /\ res[i].name = geojson_filename(TypeOfLayer(last))
            /\ i + 2 = Len(res)
            /\ res[i + 2].url = Some(layer_url_of(last))
       /\ dataset.dataset_preview = Some("resource_id")

C3_Witness ==
  /\ outcome = "Dataset"
  /\ Len(Qualifying) >= 2
  /\ \E i \in 1..Len(dataset.resources) : dataset.resources[i].dataset_preview_enabled

\* C4: a resolvable country without a qualifying layer: generate_dataset
\* returns None, fetches no features and writes no file.
C4_NoData ==
  (CallOver /\ countryiso \in KnownCountries /\ Len(Qualifying) = 0) =>
    /\ outcome = "None"
    /\ \A i \in 1..Len(events) : events[i].op \notin {"fetch", "write"}
    /\ \A f \in DOMAIN tempdir : \A r \in tempdir[f] : r.call # calls

C4_Witness ==
  /\ CallOver
  /\ countryiso \in KnownCountries
  /\ Len(layer_id_to_type) >= 1
  /\ Len(DateRanges) = Len(layer_id_to_type)
  /\ Len(Qualifying) = 0
  /\ outcome = "None"

\* C5: a call for a country that cannot be resolved returns None at once: no
\* query, no fetch, no file operation, the staging directory as it was.
C5_UnresolvableCountry ==
  [][(pc = "idle" /\ calls' = calls + 1 /\ countryiso' \notin KnownCountries)
       => /\ outcome' = "None"
          /\ pc' = "idle"
          /\ events' = <<>>
          /\ tempdir' = tempdir]_vars

C5_Witness ==
  /\ pc = "idle"
  /\ calls >= 2
  /\ countryiso \notin KnownCountries
  /\ outcome = "None"
  /\ gpkg_filename \in DOMAIN tempdir

\* C6: the keys of the LayerTypeMap are the ids of the feature layers of the
\* catalog, each classified "points" when its geometry type contains "point"
\* and "polygons" otherwise; only feature layers are queried for countries;
\* an empty catalog gives an empty map and an empty country list.
C6_LayerTypeMap ==
  /\ queried \subseteq {FeatureEntries[i].id : i \in 1..Len(FeatureEntries)}
  /\ pc \notin {"get_layersinfo", "layers_loop"} =>
       /\ Len(layer_id_to_type) = Len(FeatureEntries)
       /\ \A i \in 1..Len(FeatureEntries) :
            /\ layer_id_to_type[i].id = FeatureEntries[i].id
            /\ layer_id_to_type[i].type \in {"points", "polygons"}
            /\ layer_id_to_type[i].type = "points"
                 <=> Contains(FeatureEntries[i].geometryType, <<"p","o","i","n","t">>)
       /\ queried = {FeatureEntries[i].id : i \in 1..Len(FeatureEntries)}
       /\ layers = <<>> => (layer_id_to_type = <<>> /\ country_list = <<>>)

C6_Witness ==
  /\ pc = "idle"
  /\ Len(FeatureEntries) < Len(layers)
  /\ \E i \in 1..Len(layer_id_to_type) : layer_id_to_type[i].type = "points"

\* C7: the Dataset returned for country code c is named "unep_WDPCA_"
\* followed by c in lower case.
C7_DatasetName ==
  outcome = "Dataset" =>
    /\ dataset.name = <<"u","n","e","p","_","W","D","P","C","A","_">> \o lower(countryiso)
    /\ countryiso = BOL =>
         dataset.name = <<"u","n","e","p","_","W","D","P","C","A","_","b","o","l">>

\* C8: features are fetched for a layer only after its date-range query of
\* the same call returned a start year, and at most once.
C8_FetchAfterDateRange ==
  \A j \in 1..Len(events) :
    events[j].op = "fetch" =>
      /\ \E i \in 1..(j - 1) :
           /\ events[i].op = "date_range"
           /\ events[i].layer_id = events[j].layer_id
           /\ events[i].range[1] # None
      /\ \A i \in 1..Len(events) :
           (events[i].op = "fetch" /\ events[i].layer_id = events[j].layer_id)
             => i = j
      /\ \A i \in 1..Len(events) :
           (events[i].op = "date_range" /\ events[i].layer_id = events[j].layer_id)
             => events[i].range[1] # None

C8_Witness ==
  /\ \E j \in 1..Len(events) : events[j].op = "fetch"
  /\ \E i \in 1..Len(events) :
       events[i].op = "date_range" /\ events[i].range[1] = None

\* C9: when a Dataset is returned, the geopackage holds the features fetched
\* for every qualifying layer.
C9_AllLayersInGeopackage ==
  outcome = "Dataset" =>
    /\ gpkg_filename \in DOMAIN tempdir
    /\ \A k \in 1..Len(Qualifying) :
         \E r \in tempdir[gpkg_filename] :
           r.gdf = [layer_id |-> Qualifying[k].layer_id, iso3 |-> countryiso]

\* C9, for maps whose qualifying layers have distinct classifications (not
\* the statement of C9).
AllLayersInGeopackageDistinctTypes ==
  (\A j, k \in 1..Len(Qualifying) :
     TypeOfLayer(Qualifying[j].layer_id) = TypeOfLayer(Qualifying[k].layer_id)
       => j = k)
    => C9_AllLayersInGeopackage

\* C10: when a call returns a Dataset, every sub-collection of the geopackage
\* was written during that call, for that call's country.
C10_GeopackageOfThisCall ==
  outcome = "Dataset" =>
    /\ gpkg_filename \in DOMAIN tempdir
    /\ \A r \in tempdir[gpkg_filename] :
         r.call = calls /\ r.gdf.iso3 = countryiso

\* An earlier call for another country wrote a layer type this call did not.
C10_Witness ==
  /\ outcome = "Dataset"
  /\ calls >= 2
  /\ \E t \in {"points", "polygons"} :
       /\ geojson_filename(t) \in DOMAIN tempdir
       /\ \A r \in tempdir[geojson_filename(t)] :
            r.call < calls /\ r.gdf.iso3 # countryiso

====
